---- MODULE Spec2Model ----
(***************************************************************************)
(* Model of the ceph-csi operator charms (canonical/ceph-csi-operator).    *)
(*                                                                         *)
(* Four charms share one handler, CephCsiCharm.set_pod_spec:               *)
(*   provisioner  src/ceph-csi-provisioner/src/charm.py (controller)       *)
(*   nodeplugin   src/ceph-csi-nodeplugin/src/charm.py                     *)
(*   driver       src/ceph-csi-driver/src/charm.py                         *)
(*   combined     src/src/charm.py                                         *)
(* The handler is modelled statement by statement (pc), so that the order  *)
(* of status writes and of calls to Juju and to the Kubernetes API can be  *)
(* observed.  The Kubernetes storage class is cluster scoped and shared    *)
(* with other models, which may create it at any time.                     *)
(***************************************************************************)
EXTENDS Integers, Sequences, FiniteSets, TLC

\* ------------------------------------------------------------------ bounds
\* Largest number of related units over all instances of the ceph relation.
MaxUnits == 1
\* Largest number of related units when the aggregation loop is run alone.
MaxLoopUnits == 2
\* Depth at which the interpreter refuses one more nested call of
\* apply_storage_class (RecursionError); CPython's default is far larger.
RecursionLimit == 4

\* ------------------------------------------------------- values and inputs
Charms == {"provisioner", "nodeplugin", "driver", "combined"}

\* Python's None for ceph_user / ceph_key.
NoneVal == "<None>"

\* Values of the cluster-id configuration option.
ClusterIds == {"c1", "c2"}

\* Values of the metrics-port configuration option.
MetricsPorts == {9080, 9090}

\* A value of the mount-options option: a string, written as the sequence of
\* its pieces with every "," a piece of its own.
MountOptionValues == {<<>>, <<"noatime">>, <<"noatime", ",", "discard">>}

\* One content of self.model.config: the options the handler reads into the
\* workload spec and the storage class.
DefaultConfig ==
    [clusterID            |-> "c1",
     metricsPort          |-> 9080,
     reclaimPolicy        |-> "Delete",
     allowVolumeExpansion |-> TRUE,
     mountOptions         |-> <<"noatime">>,
     fsName               |-> "ceph-fs",
     poolName             |-> "ceph-pool",
     fsType               |-> "ext4"]

\* The configurations that differ in the cluster-id option only.
ClusterConfigs == {[DefaultConfig EXCEPT !.clusterID = id] : id \in ClusterIds}

\* self.model.config, as far as the handler reads it into the workload spec.
Configs ==
    {[c EXCEPT !.metricsPort = p] : c \in ClusterConfigs, p \in MetricsPorts}

\* self.model.config, as far as apply_storage_class reads it: DefaultConfig
\* and every configuration that differs from it in one option.
StorageConfigs ==
    ClusterConfigs
        \cup {[DefaultConfig EXCEPT !.reclaimPolicy = "Retain"],
              [DefaultConfig EXCEPT !.allowVolumeExpansion = FALSE],
              [DefaultConfig EXCEPT !.fsName = "other-fs"],
              [DefaultConfig EXCEPT !.poolName = "other-pool"],
              [DefaultConfig EXCEPT !.fsType = "xfs"]}
        \cup {[DefaultConfig EXCEPT !.mountOptions = m] : m \in MountOptionValues}

\* self.model.name of the model the unit runs in.
ModelName == "ceph"

\* Values of socket.gethostname() on the unit.
Hostnames == {"operator-0", "operator-1"}

\* Relation data one related unit may publish: any subset of the three keys
\* the handler reads, each with a string value.
RelationKeys == {"auth", "key", "ceph-public-address"}

AuthValues == {"admin"}

KeyValues == {"", "secret"}

AddressValues == {"10.0.0.1"}

ValuesOf(k) ==
    IF k = "auth" THEN AuthValues
    ELSE IF k = "key" THEN KeyValues
    ELSE AddressValues

UnitData ==
    UNION { { d \in [K -> AuthValues \cup KeyValues \cup AddressValues] :
                \A k \in K : d[k] \in ValuesOf(k) } : K \in SUBSET RelationKeys }

\* The units of all ceph relations, in iteration order.
RelationUnits == UNION { [1..n -> UnitData] : n \in 0..MaxUnits }

\* What a relation-changed event may find: the units as they were, or one
\* unit more, one unit less, or new data of one unit.
RelationChanges(units) ==
    {units}
    \cup (IF Len(units) < MaxUnits
          THEN { Append(units, d) : d \in UnitData } ELSE {})
    \cup { [units EXCEPT ![i] = d] : i \in 1..Len(units), d \in UnitData }
    \cup { SubSeq(units, 1, i - 1) \o SubSeq(units, i + 1, Len(units)) :
             i \in 1..Len(units) }

\* Relation data for the aggregation loop run alone: more units, and values
\* that tell the units apart.
LoopValuesOf(k) ==
    IF k = "auth" THEN {"admin", "client"}
    ELSE IF k = "key" THEN {"", "secret", "other"}
    ELSE {"10.0.0.1", "10.0.0.2"}

LoopUnitData ==
    UNION { { d \in [K -> UNION { LoopValuesOf(k) : k \in RelationKeys }] :
                \A k \in K : d[k] \in LoopValuesOf(k) } : K \in SUBSET RelationKeys }

LoopRelationUnits == UNION { [1..n -> LoopUnitData] : n \in 0..MaxLoopUnits }

\* The contents of the relation data the handler tells apart: no unit, a
\* unit with identity, key and address, a unit with an empty key, a unit
\* without a key.
RelationKinds ==
    { <<>>,
      <<[k \in RelationKeys |->
           IF k = "auth" THEN "admin" ELSE IF k = "key" THEN "secret"
           ELSE "10.0.0.1"]>>,
      <<[k \in RelationKeys |->
           IF k = "auth" THEN "admin" ELSE IF k = "key" THEN ""
           ELSE "10.0.0.1"]>>,
      <<[k \in {"auth", "ceph-public-address"} |->
           IF k = "auth" THEN "admin" ELSE "10.0.0.1"]>> }

\* ----------------------------------------------------------- state
VARIABLES
    charm,          \* which of the four charms this unit runs
    config,         \* self.model.config
    relation,       \* self.model.relations["ceph"], flattened to its units
    hostname,       \* socket.gethostname()
    status,         \* self.model.unit.status
    storageClass,   \* the cluster's StorageClass "ceph-csi-sc"
    deferred,       \* events whose defer() was called, awaiting re-delivery
    pc,             \* position of set_pod_spec
    event,          \* the event being handled
    ceph_user,      \* local of set_pod_spec
    ceph_key,       \* local of set_pod_spec
    ceph_monitors,  \* local of set_pod_spec
    fetched,        \* number of image resources fetched so far
    depth,          \* nesting depth of apply_storage_class
    outcome,        \* how the handler ended: "returned" or the exception
    trace,          \* status writes and outbound calls of this handler run
    podSpec,        \* the document this handler run passed to set_spec
    remembered      \* what the handler run before this one left behind

vars == <<charm, config, relation, status, storageClass, deferred, pc, event,
          ceph_user, ceph_key, ceph_monitors, fetched, depth, outcome, trace,
          hostname, podSpec, remembered>>

locals == <<ceph_user, ceph_key, ceph_monitors, fetched, depth>>

inputs == <<charm, config, relation, hostname>>

\* ----------------------------------------------------------- statuses
MaintenanceStatus(msg) == [kind |-> "maintenance", message |-> msg]

\* A last statement that leaves the maintenance status in place.
StillMaintenance == MaintenanceStatus("Setting pod spec")

ActiveStatus == [kind |-> "active", message |-> ""]

\* A handler that reports every fetch failure with one fixed status.
FixedStatus(role) == MaintenanceStatus("Setting pod spec")

\* e.status of an OCIImageResourceError raised by fetching resource `role`.
ErrorStatus(role) == [kind |-> "blocked", message |-> role]

\* The status of a unit on which no handler has set one yet.
UnknownStatus == [kind |-> "unknown", message |-> ""]

\* ----------------------------------------------------------- trace entries
StatusEntry(s) == [kind |-> "status", what |-> s.kind, res |-> s.message]

CallEntry(op, res) == [kind |-> "call", what |-> op, res |-> res]

DeferEntry(e) == [kind |-> "defer", what |-> e, res |-> ""]

\* ----------------------------------------------------------- charm tables
\* The events each charm observes with set_pod_spec.
Observed(c) ==
    IF c = "provisioner"
    THEN {"install", "upgrade_charm", "config_changed", "ceph_relation_changed"}
    ELSE {"install", "upgrade_charm", "config_changed"}

\* The lifecycle events Juju delivers to the unit.
LifecycleEvents(c) == Observed(c) \cup {"remove"}

\* The image resources each charm fetches, in the order of the fetch calls.
ImageRoles(c) ==
    IF c \in {"provisioner", "combined"}
    THEN <<"csi-image", "provisioner-image", "resizer-image",
           "snapshotter-image", "attacher-image">>
    ELSE <<"csi-image", "registrar-image">>

\* A charm that skips apply_storage_class.
OwnsNoStorageClass(c) == FALSE

\* Only the provisioner charm calls apply_storage_class after set_spec.
OwnsStorageClass(c) == c = "provisioner"

\* ----------------------------------------------------------- storage class
\* `fresh` marks an object created by the handler run in progress; any other
\* object is stale (left by an earlier run or made by another model).
NoStorageClass == [present |-> FALSE, fresh |-> FALSE]

\* self.driver_name
DriverName == "cephfs.csi.ceph.com"

\* str.split(","): the pieces between the commas, "" where there is none.
RECURSIVE SplitFrom(_, _, _)
SplitFrom(s, i, piece) ==
    IF i > Len(s) THEN <<piece>>
    ELSE IF s[i] = "," THEN <<piece>> \o SplitFrom(s, i + 1, "")
    ELSE SplitFrom(s, i + 1, piece \o s[i])

SplitCommas(s) == SplitFrom(s, 1, "")

\* The "parameters" of the dictionary sc, for a model of the given name.
Parameters(cfg, model) ==
    [clusterID     |-> cfg.clusterID,
     fsName        |-> cfg.fsName,
     pool          |-> cfg.poolName,
     imageFeatures |-> "layering",
     provisioner_secret_name            |-> "ceph-csi-secret",
     provisioner_secret_namespace       |-> model,
     controller_expand_secret_name      |-> "ceph-csi-secret",
     controller_expand_secret_namespace |-> model,
     node_stage_secret_name             |-> "ceph-csi-secret",
     node_stage_secret_namespace        |-> model,
     fstype        |-> cfg.fsType]

\* The dictionary sc as the same charm builds it in the model of that name.
StorageClassOf(cfg, model) ==
    [present                |-> TRUE,
     fresh                  |-> TRUE,
     name                   |-> "ceph-csi-sc",
     provisioner            |-> DriverName,
     reclaim_policy         |-> cfg.reclaimPolicy,
     allow_volume_expansion |-> cfg.allowVolumeExpansion,
     mount_options          |-> SplitCommas(cfg.mountOptions),
     parameters             |-> Parameters(cfg, model)]

\* A create call that sends the dictionary of the first apply ever made.
BuiltFromDefault(cfg) == StorageClassOf(DefaultConfig, ModelName)

\* The object create_storage_class makes from the current configuration.
BuiltStorageClass(cfg) == StorageClassOf(cfg, ModelName)

\* An object with the same cluster-scoped name made outside this handler
\* run by the same charm for the cluster of that id (a model of the same
\* name on another controller of the cluster).
StaleStorageClass(id) ==
    [StorageClassOf([DefaultConfig EXCEPT !.clusterID = id], ModelName)
        EXCEPT !.fresh = FALSE]

\* The cluster-id parameter of the object, "" when there is none.
ClusterIdOf(sc) == IF sc.present THEN sc.parameters.clusterID ELSE ""

\* ----------------------------------------------------------- aggregation
\* A test `x is None` in place of `not x`.
IsNone(x) == x = NoneVal

\* Python truthiness of ceph_user / ceph_key: `not x`.
Falsy(x) == x \in {NoneVal, ""}

\* The loop over relation.units: every unit overwrites ceph_user and
\* ceph_key and appends its address; a missing key raises KeyError.
RECURSIVE AggregateFrom(_, _, _)
AggregateFrom(units, i, acc) ==
    IF i > Len(units) THEN acc
    ELSE IF ~ (RelationKeys \subseteq DOMAIN units[i])
         THEN [acc EXCEPT !.raised = TRUE]
         ELSE AggregateFrom(units, i + 1,
                  [raised   |-> FALSE,
                   user     |-> units[i]["auth"],
                   key      |-> units[i]["key"],
                   monitors |-> Append(acc.monitors,
                                       units[i]["ceph-public-address"])])

\* A loop that drops a repeated address.
AggregateDistinct(units) ==
    LET a == AggregateFrom(units, 1,
                 [raised |-> FALSE, user |-> NoneVal, key |-> NoneVal,
                  monitors |-> <<>>])
    IN IF Len(a.monitors) >= 2 /\ a.monitors[1] = a.monitors[2]
       THEN [a EXCEPT !.monitors = Tail(a.monitors)]
       ELSE a

Aggregate(units) ==
    AggregateFrom(units, 1,
        [raised |-> FALSE, user |-> NoneVal, key |-> NoneVal, monitors |-> <<>>])

\* `event in [self.on.remove, self.on.config_changed,
\*            self.on["ceph"].relation_changed]`: the list holds the bound
\* event sources, `event` is an event instance, and neither class defines
\* equality, so the test is by identity and never succeeds.
EventInCleanupList(e) == FALSE

\* ----------------------------------------------------------- strings
\* A string of the workload spec is kept as the sequence of its pieces
\* between "/" characters (Python's s.split("/")), so that the directory of
\* a path and the scheme of an endpoint can be told from the text itself:
\* "/csi/csi.sock" is <<"", "csi", "csi.sock">>.
Str(s) == <<s>>

\* a + b, "...{}...".format(b) and f"...{b}...": the last piece of a and
\* the first piece of b run together.
Cat(a, b) ==
    SubSeq(a, 1, Len(a) - 1) \o <<a[Len(a)] \o b[1]>> \o Tail(b)

\* os.path.dirname(p): the text before the last "/", without trailing "/"
\* unless that text is the root.
RECURSIVE StripSlashes(_)
StripSlashes(p) ==
    IF Len(p) > 1 /\ p[Len(p)] = ""
    THEN StripSlashes(SubSeq(p, 1, Len(p) - 1))
    ELSE p

Dirname(p) ==
    IF Len(p) = 1 THEN <<"">>
    ELSE LET head == SubSeq(p, 1, Len(p) - 1) IN
         IF \A i \in 1..Len(head) : head[i] = ""
         THEN head \o <<"">>
         ELSE StripSlashes(head)

\* str(n) of a configuration number inside a formatted string.
NumStr(n) == <<ToString(n)>>

\* json.dumps of a string, of a list of strings and of csi_config, with the
\* default separators ", " and ": ".
JsonString(s) == IF s = NoneVal THEN "null" ELSE "\"" \o s \o "\""

RECURSIVE JsonItems(_)
JsonItems(list) ==
    IF list = <<>> THEN ""
    ELSE IF Len(list) = 1 THEN JsonString(list[1])
    ELSE JsonString(list[1]) \o ", " \o JsonItems(Tail(list))

RECURSIVE JsonEntries(_)
JsonEntries(entries) ==
    IF entries = <<>> THEN ""
    ELSE LET e == entries[1]
             text == "{\"clusterID\": " \o JsonString(e.clusterID)
                     \o ", \"monitors\": [" \o JsonItems(e.monitors) \o "]}"
         IN IF Len(entries) = 1 THEN text
            ELSE text \o ", " \o JsonEntries(Tail(entries))

JsonDumps(csi_config) == "[" \o JsonEntries(csi_config) \o "]"

\* ----------------------------------------------------------- spec pieces
\* One element of "args": "--flag=value".
Arg(flag, value) == [flag |-> flag, value |-> value]

\* One item of "envConfig": a literal value or a field reference.
EnvValue(name, value) == [name |-> name, kind |-> "value", value |-> value]

EnvField(name, path, version) ==
    [name |-> name, kind |-> "field", value |-> <<path, version>>]

\* One element of "volumeConfig"; kind is "" where hostPath has no "type".
Volume(name, mountPath, hostPath, kind) ==
    [name |-> name, mountPath |-> mountPath, hostPath |-> hostPath,
     type |-> kind]

Port(name, number) == [name |-> name, containerPort |-> number]

\* One element of "containers"; `privileged` is FALSE where the container
\* has no "kubernetes" securityContext.
Container(name, image, args, env, ports, volumes, privileged) ==
    [name |-> name, imageDetails |-> image, args |-> args, envConfig |-> env,
     ports |-> ports, volumeConfig |-> volumes, privileged |-> privileged]

Rule(apiGroups, resources, verbs) ==
    [apiGroups |-> apiGroups, resources |-> resources, verbs |-> verbs]

ServiceAccount(name, role, rules) ==
    [name |-> name, role |-> role, global |-> TRUE, rules |-> rules]

\* A volume list that names the socket directory a second time.
RepeatedSocketDir ==
    <<Volume("socket-dir", <<"", "csi">>, <<"", "csi">>, "DirectoryOrCreate")>>

\* Volumes the driver container mounts in the provisioner and nodeplugin
\* charms besides the socket directory.
HostVolumes ==
    <<Volume("mountpoint-dir", <<"", "var", "lib", "kubelet", "pods">>,
             <<"", "var", "lib", "kubelet", "pods">>, "DirectoryOrCreate"),
      Volume("plugin-dir", <<"", "var", "lib", "kubelet", "plugins">>,
             <<"", "var", "lib", "kubelet", "plugins">>, "Directory"),
      Volume("host-sys", <<"", "sys">>, <<"", "sys">>, ""),
      Volume("lib-modules", <<"", "lib", "modules">>,
             <<"", "lib", "modules">>, ""),
      Volume("host-dev", <<"", "dev">>, <<"", "dev">>, ""),
      Volume("host-mount", <<"", "run", "mount">>, <<"", "run", "mount">>, ""),
      Volume("keys-tmp-dir", <<"", "tmp", "csi", "keys">>,
             <<"", "tmp", "csi", "keys">>, "")>>

\* The rules of role cephfs-csi-provisioner-runner of the provisioner charm.
ProvisionerRules ==
    <<Rule(<<"">>, <<"nodes">>,
           <<"get", "list", "watch">>),
      Rule(<<"">>, <<"secrets">>,
           <<"get", "list">>),
      Rule(<<"">>, <<"events">>,
           <<"list", "watch", "create", "update", "patch">>),
      Rule(<<"">>, <<"persistentvolumes">>,
           <<"get", "list", "watch", "create", "delete", "patch">>),
      Rule(<<"">>, <<"persistentvolumeclaims">>,
           <<"get", "list", "watch", "update">>),
      Rule(<<"storage.k8s.io">>, <<"storageclasses">>,
           <<"get", "list", "watch">>),
      Rule(<<"snapshot.storage.k8s.io">>, <<"volumesnapshots">>,
           <<"get", "list">>),
      Rule(<<"snapshot.storage.k8s.io">>, <<"volumesnapshotcontents">>,
           <<"create", "get", "list", "watch", "update", "delete">>),
      Rule(<<"snapshot.storage.k8s.io">>, <<"volumesnapshotclasses">>,
           <<"get", "list", "watch">>),
      Rule(<<"storage.k8s.io">>, <<"volumeattachments">>,
           <<"get", "list", "watch", "update", "patch">>),
      Rule(<<"storage.k8s.io">>, <<"volumeattachments/status">>,
           <<"patch">>),
      Rule(<<"">>, <<"persistentvolumeclaims/status">>,
           <<"update", "patch">>),
      Rule(<<"storage.k8s.io">>, <<"csinodes">>,
           <<"get", "list", "watch">>),
      Rule(<<"snapshot.storage.k8s.io">>, <<"volumesnapshotcontents/status">>,
           <<"update">>)>>

\* The rules of role cephfs-csi-nodeplugin of the nodeplugin charm.
NodepluginRules ==
    <<Rule(<<"">>, <<"nodes">>,
           <<"get">>)>>

\* ----------------------------------------------------------- workload specs
\* The document each charm passes to self.model.pod.set_spec, from the
\* configuration, the host name and (provisioner) the aggregated relation
\* data.  imageDetails is the image resource the fetch call resolved.
UnixScheme == <<"unix:", "", "">>

WorkloadSpec(containers, serviceAccounts, secrets, configMaps) ==
    [version |-> 3, containers |-> containers,
     serviceAccounts |-> serviceAccounts, secrets |-> secrets,
     configMaps |-> configMaps]

ProvisionerSpec(cfg, host, user, key, monitors) ==
    LET driver_name == "cephfs.csi.ceph.com"
        csi_config ==
            <<[clusterID |-> cfg.clusterID, monitors |-> monitors]>>
        csi_socket ==
            [container |-> <<"", "csi", "csi.sock">>,
             host |-> Cat(Cat(<<"", "var", "lib", "kubelet", "plugins">>,
                              Str(driver_name)),
                          <<"", "csi.sock">>)]
        csi_volume ==
            Volume("socket-dir", Dirname(csi_socket.container),
                   Dirname(csi_socket.host), "DirectoryOrCreate")
        default_environment ==
            <<EnvField("NODE_ID", "spec.nodeName", "v1"),
              EnvField("POD_IP", "status.podIP", "v1"),
              EnvValue("CSI_ENDPOINT", Cat(UnixScheme, csi_socket.container))>>
    IN WorkloadSpec(
         <<Container("ceph-provisioner", "provisioner-image",
                     <<Arg("--csi-address", csi_socket.container),
                       Arg("--v", Str("5")),
                       Arg("--timeout", Str("150s")),
                       Arg("--leader-election", Str("true")),
                       Arg("--retry-interval-start", Str("500ms")),
                       Arg("--feature-gates", Str("Topology=false")),
                       Arg("--extra-create-metadata", Str("true"))>>,
                     <<>>, <<Port("metrics", cfg.metricsPort)>>,
                     <<csi_volume>>, FALSE),
           Container("ceph-resizer", "resizer-image",
                     <<Arg("--csi-address", csi_socket.container),
                       Arg("--v", Str("5")),
                       Arg("--timeout", Str("150s")),
                       Arg("--leader-election", Str("true")),
                       Arg("--retry-interval-start", Str("500ms")),
                       Arg("--handle-volume-inuse-error", Str("false"))>>,
                     default_environment, <<>>, <<csi_volume>>, FALSE),
           Container("ceph-snapshotter", "snapshotter-image",
                     <<Arg("--csi-address", csi_socket.container),
                       Arg("--v", Str("5")),
                       Arg("--timeout", Str("150s")),
                       Arg("--leader-election", Str("true"))>>,
                     <<>>, <<>>, <<csi_volume>>, TRUE),
           Container("csi-cephfsplugin-attacher", "attacher-image",
                     <<Arg("--csi-address", csi_socket.container),
                       Arg("--v", Str("5")),
                       Arg("--leader-election", Str("true")),
                       Arg("--retry-interval-start", Str("500ms"))>>,
                     default_environment, <<>>, <<csi_volume>>, FALSE),
           Container("csi-cephfsplugin", "csi-image",
                     <<Arg("--nodeid", Str(host)),
                       Arg("--type", Str("cephfs")),
                       Arg("--controllerserver", Str("true")),
                       Arg("--endpoint",
                           Cat(UnixScheme, csi_socket.container)),
                       Arg("--v", Str("5")),
                       Arg("--drivername", Str(driver_name)),
                       Arg("--pidlimit", Str("-1"))>>,
                     default_environment, <<>>,
                     <<csi_volume>> \o HostVolumes
                       \o <<Volume("ceph-csi-config",
                                   <<"", "etc", "ceph-csi-config">>,
                                   <<"", "etc", "ceph-csi-config">>, "")>>,
                     TRUE),
           Container("liveness-prometheus", "csi-image",
                     <<Arg("--type", Str("liveness")),
                       Arg("--endpoint",
                           Cat(UnixScheme, csi_socket.container)),
                       Arg("--metricsport", NumStr(cfg.metricsPort)),
                       Arg("--metricspath", <<"", "metrics">>),
                       Arg("--polltime", Str("60s")),
                       Arg("--timeout", Str("3s"))>>,
                     default_environment, <<>>,
                     <<Volume("socket-dir", Dirname(csi_socket.container),
                              Dirname(csi_socket.host),
                              "DirectoryOrCreate")>>,
                     FALSE)>>,
         <<ServiceAccount("cephfs-csi-provisioner",
                          "cephfs-csi-provisioner-runner", ProvisionerRules)>>,
         <<[name |-> "ceph-csi-secret", adminID |-> user, adminKey |-> key]>>,
         <<[name |-> "ceph-csi-config", file |-> "config.json",
            data |-> JsonDumps(csi_config)]>>)

NodepluginSpec(cfg, host) ==
    LET driver_name == "cephfs.csi.ceph.com"
        csi_socket ==
            [container |-> <<"", "csi", "csi.sock">>,
             host |-> Cat(Cat(<<"", "var", "lib", "kubelet", "plugins">>,
                              Str(driver_name)),
                          <<"", "csi.sock">>)]
        registration_socket ==
            [container |-> Cat(Cat(<<"", "registration", "">>,
                                   Str(driver_name)), Str("-reg.sock")),
             host |-> Cat(Cat(<<"", "var", "lib", "kubelet",
                                "plugins_registry", "">>,
                              Str(driver_name)), Str("-reg.sock"))]
        socket_dir ==
            Volume("socket-dir", Dirname(csi_socket.container),
                   Dirname(csi_socket.host), "DirectoryOrCreate")
        default_environment ==
            <<EnvField("NODE_ID", "spec.nodeName", "v1"),
              EnvField("POD_IP", "status.podIP", "v1"),
              EnvValue("CSI_ENDPOINT", Cat(UnixScheme, csi_socket.container))>>
    IN WorkloadSpec(
         <<Container("ceph-registrar", "registrar-image",
                     <<Arg("--v", Str("5")),
                       Arg("--csi-address", csi_socket.container),
                       Arg("--kubelet-registration-path",
                           registration_socket.host)>>,
                     default_environment,
                     <<Port("metrics", cfg.metricsPort)>>,
                     <<socket_dir,
                       Volume("registration-dir",
                              Dirname(registration_socket.container),
                              Dirname(registration_socket.host),
                              "DirectoryOrCreate")>>,
                     TRUE),
           Container("csi-cephfsplugin", "csi-image",
                     <<Arg("--nodeid", Str(host)),
                       Arg("--type", Str("cephfs")),
                       Arg("--nodeserver", Str("true")),
                       Arg("--endpoint",
                           Cat(UnixScheme, csi_socket.container)),
                       Arg("--v", Str("5")),
                       Arg("--drivername", Str(driver_name))>>,
                     default_environment, <<>>,
                     <<socket_dir>> \o HostVolumes, TRUE),
           Container("liveness-prometheus", "csi-image",
                     <<Arg("--type", Str("liveness")),
                       Arg("--endpoint",
                           Cat(UnixScheme, csi_socket.container)),
                       Arg("--metricsport", NumStr(cfg.metricsPort)),
                       Arg("--metricspath", <<"", "metrics">>),
                       Arg("--polltime", Str("60s")),
                       Arg("--timeout", Str("3s"))>>,
                     <<EnvField("NODE_ID", "spec.nodeName", "v1"),
                       EnvField("POD_IP", "status.podIP", "v1"),
                       EnvValue("CSI_ENDPOINT",
                                Cat(UnixScheme, csi_socket.container))>>,
                     <<>>, <<socket_dir>>, FALSE)>>,
         <<ServiceAccount("cephfs-csi-nodeplugin", "cephfs-csi-nodeplugin",
                          NodepluginRules)>>,
         <<>>, <<>>)

DriverSpec(cfg, host) ==
    LET csi_socket == <<"unix:", "", "", "csi", "csi.sock">>
        host_socket_directory ==
            <<"", "var", "lib", "kubelet", "plugins", "cephfs.csi.ceph.com",
              "">>
    IN WorkloadSpec(
         <<Container("ceph-registrar", "registrar-image",
                     <<Arg("--v", Str("5")),
                       Arg("--csi-address", csi_socket),
                       Arg("--kubelet-registration-path",
                           Cat(host_socket_directory, Str("csi.sock")))>>,
                     <<>>, <<Port("metrics", cfg.metricsPort)>>, <<>>, FALSE),
           Container("ceph-csi", "csi-image",
                     <<Arg("--nodeid", Str(host)),
                       Arg("--type", Str("cephfs")),
                       Arg("--nodeserver", Str("true")),
                       Arg("--endpoint", csi_socket),
                       Arg("--v", Str("5")),
                       Arg("--drivername", Str("cephfs.csi.ceph.com"))>>,
                     <<>>, <<>>,
                     <<Volume("socket-dir", <<"", "csi">>,
                              host_socket_directory, "DirectoryOrCreate")>>,
                     TRUE)>>,
         <<>>, <<>>, <<>>)

CombinedSpec(cfg, host) ==
    LET provisioner_socket ==
            <<"unix:", "", "", "csi", "csi-provisioner.sock">>
        host_provisioner_socket ==
            <<"", "var", "lib", "kubelet", "plugins", "cephfs.csi.ceph.com",
              "">>
        socket_dir ==
            Volume("socket-dir", <<"", "csi">>, host_provisioner_socket,
                   "DirectoryOrCreate")
    IN WorkloadSpec(
         <<Container("ceph-csi", "csi-image",
                     <<Arg("--nodeid", Str(host)),
                       Arg("--type", Str("cephfs")),
                       Arg("--nodeserver", Str("true")),
                       Arg("--endpoint", provisioner_socket),
                       Arg("--v", Str("5")),
                       Arg("--drivername", Str("cephfs.csi.ceph.com")),
                       Arg("--pidlimit", Str("-1"))>>,
                     <<EnvValue("CSI_ENDPOINT", provisioner_socket)>>,
                     <<Port("metrics", cfg.metricsPort)>>,
                     <<socket_dir>>, FALSE),
           Container("ceph-provisioner", "provisioner-image",
                     <<Arg("--csi-address", provisioner_socket),
                       Arg("--v", Str("5")),
                       Arg("--timeout", Str("150s")),
                       Arg("--leader-election", Str("true")),
                       Arg("--retry-interval-start", Str("500ms")),
                       Arg("--feature-gates", Str("Topology=false")),
                       Arg("--extra-create-metadata", Str("true"))>>,
                     <<EnvValue("ADDRESS", provisioner_socket)>>, <<>>,
                     <<socket_dir>>, FALSE),
           Container("ceph-resizer", "resizer-image",
                     <<Arg("--csi-address", provisioner_socket),
                       Arg("--v", Str("5")),
                       Arg("--timeout", Str("150s")),
                       Arg("--leader-election", Str("true")),
                       Arg("--retry-interval-start", Str("500ms")),
                       Arg("--handle-volume-inuse-error", Str("false"))>>,
                     <<EnvValue("ADDRESS", provisioner_socket)>>, <<>>,
                     <<socket_dir>>, FALSE),
           Container("ceph-snapshotter", "snapshotter-image",
                     <<Arg("--csi-address", provisioner_socket),
                       Arg("--v", Str("5")),
                       Arg("--timeout", Str("150s")),
                       Arg("--leader-election", Str("true"))>>,
                     <<EnvValue("ADDRESS", provisioner_socket)>>, <<>>,
                     <<socket_dir>>, FALSE),
           Container("ceph-attacher", "attacher-image",
                     <<Arg("--csi-address", provisioner_socket),
                       Arg("--v", Str("5")),
                       Arg("--leader-election", Str("true")),
                       Arg("--retry-interval-start", Str("500ms"))>>,
                     <<EnvValue("ADDRESS", provisioner_socket)>>, <<>>,
                     <<socket_dir>>, FALSE)>>,
         <<>>, <<>>, <<>>)

\* A provisioner document whose config map ignores the monitors.
BuildSpecWithoutMonitors(c, cfg, host, user, key, monitors) ==
    ProvisionerSpec(cfg, host, user, key, <<>>)

\* A document that names the event being handled as the node.
BuildSpecForEvent(c, cfg, host, user, key, monitors) ==
    IF c = "provisioner" THEN ProvisionerSpec(cfg, event, user, key, monitors)
    ELSE IF c = "nodeplugin" THEN NodepluginSpec(cfg, event)
    ELSE IF c = "driver" THEN DriverSpec(cfg, event)
    ELSE CombinedSpec(cfg, event)

\* The document of charm c.
BuildSpec(c, cfg, host, user, key, monitors) ==
    IF c = "provisioner" THEN ProvisionerSpec(cfg, host, user, key, monitors)
    ELSE IF c = "nodeplugin" THEN NodepluginSpec(cfg, host)
    ELSE IF c = "driver" THEN DriverSpec(cfg, host)
    ELSE CombinedSpec(cfg, host)

\* No document has been passed to set_spec.
NoSpec == [version |-> 0]

\* ----------------------------------------------------------- earlier run
\* What a finished handler run leaves behind: the last document passed to
\* set_spec by any run so far and, when no call of the run failed for
\* another reason than "already exists" (runs), the storage class and the
\* unit status at its end.
NothingRemembered == [runs |-> FALSE, spec |-> NoSpec]

\* ----------------------------------------------------------- initial state
Init ==
    /\ charm \in Charms
    /\ config \in ClusterConfigs
    /\ relation = <<>>
    /\ hostname = "operator-0"
    /\ status = UnknownStatus
    /\ storageClass = NoStorageClass
    /\ deferred = {}
    /\ pc = "idle"
    /\ event = "none"
    /\ ceph_user = NoneVal
    /\ ceph_key = NoneVal
    /\ ceph_monitors = <<>>
    /\ fetched = 0
    /\ depth = 0
    /\ outcome = "none"
    /\ trace = <<>>
    /\ podSpec = NoSpec
    /\ remembered = NothingRemembered

\* ----------------------------------------------------------- helpers
Log(entries) == trace' = trace \o entries

\* The handler ends: normally ("returned") or with an uncaught exception.
End(how) ==
    /\ pc' = "done"
    /\ outcome' = how

\* First statement of set_pod_spec in each charm.
FirstStatement(c) == IF c = "provisioner" THEN "check_event" ELSE "fetch"

\* The framework calls the observer of event e, if there is one.
Dispatch(e) ==
    /\ event' = e
    /\ trace' = <<>>
    /\ podSpec' = NoSpec
    /\ ceph_user' = NoneVal
    /\ ceph_key' = NoneVal
    /\ ceph_monitors' = <<>>
    /\ fetched' = 0
    /\ depth' = 0
    /\ storageClass' = [storageClass EXCEPT !.fresh = FALSE]
    /\ IF e \in Observed(charm)
       THEN pc' = FirstStatement(charm) /\ outcome' = "running"
       ELSE End("returned")

\* ----------------------------------------------------------- environment
\* Juju delivers a lifecycle event.  A config-changed event comes with the
\* configuration as it now is, a relation-changed event with the relation
\* data as they now are.
Deliver(e) ==
    /\ pc = "idle"
    /\ e \in LifecycleEvents(charm)
    /\ IF e = "config_changed"
       THEN \E id \in ClusterIds : config' = [config EXCEPT !.clusterID = id]
       ELSE config' = config
    /\ IF e = "ceph_relation_changed"
       THEN relation' \in RelationChanges(relation)
       ELSE relation' = relation
    /\ Dispatch(e)
    /\ UNCHANGED <<charm, hostname, status, deferred, remembered>>

\* The framework re-emits a deferred event: the handler runs again with the
\* same event, which is no longer deferred unless the handler defers it anew.
Redeliver(e) ==
    /\ pc = "idle"
    /\ e \in deferred
    /\ deferred' = deferred \ {e}
    /\ Dispatch(e)
    /\ UNCHANGED <<inputs, status, remembered>>

\* What the handler run that is ending leaves behind.
Remember ==
    LET last == IF podSpec = NoSpec THEN remembered.spec ELSE podSpec IN
    IF \A i \in 1..Len(trace) :
         trace[i].kind = "call" => trace[i].res \in {"ok", "conflict"}
    THEN [runs      |-> TRUE,
          spec      |-> last,
          present   |-> storageClass.present,
          clusterID |-> ClusterIdOf(storageClass),
          status    |-> status]
    ELSE [NothingRemembered EXCEPT !.spec = last]

\* The hook ends and the unit waits for the next event; nothing follows
\* the remove event.
FinishWith(left) ==
    /\ pc = "done"
    /\ event # "remove"
    /\ pc' = "idle"
    /\ event' = "none"
    /\ outcome' = "none"
    /\ trace' = <<>>
    /\ ceph_user' = NoneVal
    /\ ceph_key' = NoneVal
    /\ ceph_monitors' = <<>>
    /\ fetched' = 0
    /\ depth' = 0
    /\ podSpec' = NoSpec
    /\ remembered' = left
    /\ storageClass' = [storageClass EXCEPT !.fresh = FALSE]
    /\ UNCHANGED <<inputs, status, deferred>>

Finish == FinishWith(remembered)

\* The same, noting what the run leaves behind for the run that follows.
FinishAndRemember == FinishWith(Remember)

\* Juju delivers a lifecycle event while configuration and relation data
\* stay as they are.
DeliverAgain(e) ==
    /\ pc = "idle"
    /\ e \in LifecycleEvents(charm)
    /\ Dispatch(e)
    /\ UNCHANGED <<inputs, status, deferred, remembered>>

\* Another model of the same cluster applies a storage class of the same
\* name (the resource is not namespaced); the cluster is then no longer as
\* the earlier handler run left it.
OtherModelCreates ==
    /\ ~ storageClass.present
    /\ \E id \in ClusterIds : storageClass' = StaleStorageClass(id)
    /\ remembered' = [NothingRemembered EXCEPT !.spec = remembered.spec]
    /\ UNCHANGED <<inputs, status, deferred, pc, event, locals, outcome,
                   trace, podSpec>>

\* ----------------------------------------------------------- set_pod_spec
\* provisioner, lines 109-114: the cleanup branch calls
\* self.delete_storage_class(), a method the class does not define.
CheckEvent ==
    /\ pc = "check_event"
    /\ IF EventInCleanupList(event)
       THEN End("AttributeError")
       ELSE pc' = "read_relation" /\ UNCHANGED outcome
    /\ UNCHANGED <<inputs, podSpec, remembered,
                   status, storageClass, deferred, event, locals, trace>>

\* provisioner, lines 116-125.
ReadRelation ==
    /\ pc = "read_relation"
    /\ LET a == Aggregate(relation) IN
         IF a.raised
         THEN /\ End("KeyError")
              /\ UNCHANGED <<ceph_user, ceph_key, ceph_monitors>>
         ELSE /\ ceph_user' = a.user
              /\ ceph_key' = a.key
              /\ ceph_monitors' = a.monitors
              /\ pc' = "check_ready"
              /\ UNCHANGED outcome
    /\ UNCHANGED <<inputs, podSpec, remembered,
                   status, storageClass, deferred, event, fetched,
                   depth, trace>>

\* provisioner, lines 127-129: the branch has no return.
CheckReady ==
    /\ pc = "check_ready"
    /\ IF Falsy(ceph_user) \/ Falsy(ceph_key)
       THEN /\ status' = MaintenanceStatus("Waiting on ceph relation")
            /\ deferred' = deferred \cup {event}
            /\ Log(<<StatusEntry(status'), DeferEntry(event)>>)
       ELSE UNCHANGED <<status, deferred, trace>>
    /\ pc' = "fetch"
    /\ UNCHANGED <<inputs, podSpec, remembered,
                   storageClass, event, locals, outcome>>

\* One OCIImageResource.fetch() call of the try block; on
\* OCIImageResourceError the handler sets e.status and returns.
Fetch ==
    /\ pc = "fetch"
    /\ LET role == ImageRoles(charm)[fetched + 1] IN
       \E ok \in BOOLEAN :
         IF ok
         THEN /\ fetched' = fetched + 1
              /\ pc' = IF fetched' = Len(ImageRoles(charm))
                       THEN "set_status" ELSE "fetch"
              /\ Log(<<CallEntry("fetch", "ok")>>)
              /\ UNCHANGED <<status, outcome>>
         ELSE /\ status' = ErrorStatus(role)
              /\ Log(<<CallEntry("fetch", "failed"), StatusEntry(status')>>)
              /\ End("returned")
              /\ UNCHANGED fetched
    /\ UNCHANGED <<inputs, podSpec, remembered,
                   storageClass, deferred, event, ceph_user, ceph_key,
                   ceph_monitors, depth>>

\* self.model.unit.status = MaintenanceStatus("Setting pod spec")
SetMaintenance ==
    /\ pc = "set_status"
    /\ status' = MaintenanceStatus("Setting pod spec")
    /\ Log(<<StatusEntry(status')>>)
    /\ pc' = "set_spec"
    /\ UNCHANGED <<inputs, podSpec, remembered,
                   storageClass, deferred, event, locals, outcome>>

\* self.model.pod.set_spec(...): Juju accepts the document or rejects it
\* (ModelError), and nothing catches the rejection.
SetSpec ==
    /\ pc = "set_spec"
    /\ podSpec' = BuildSpec(charm, config, hostname, ceph_user, ceph_key,
                            ceph_monitors)
    /\ \E accepted \in BOOLEAN :
         IF accepted
         THEN /\ Log(<<CallEntry("set_spec", "ok")>>)
              /\ IF OwnsStorageClass(charm)
                 THEN pc' = "sc_create" /\ depth' = 1
                 ELSE pc' = "set_active" /\ depth' = depth
              /\ UNCHANGED outcome
         ELSE /\ Log(<<CallEntry("set_spec", "rejected")>>)
              /\ End("ModelError")
              /\ UNCHANGED depth
    /\ UNCHANGED <<inputs, remembered,
                   status, storageClass, deferred, event, ceph_user,
                   ceph_key, ceph_monitors, fetched>>

\* apply_storage_class, lines 83-88: create_storage_class, and on any
\* exception the status write of the except block.
CreateStorageClass ==
    /\ pc = "sc_create"
    /\ \E res \in {"ok", "conflict", "error"} :
         /\ res = "conflict" <=> storageClass.present
         /\ Log(IF res = "ok"
                THEN <<CallEntry("create", res)>>
                ELSE <<CallEntry("create", res),
                       StatusEntry(MaintenanceStatus("Failed to apply StorageClass"))>>)
         /\ IF res = "ok"
            THEN /\ storageClass' = BuiltStorageClass(config)
                 /\ pc' = "set_active"
                 /\ UNCHANGED status
            ELSE /\ status' = MaintenanceStatus("Failed to apply StorageClass")
                 /\ pc' = "sc_delete"
                 /\ UNCHANGED storageClass
    /\ UNCHANGED <<inputs, podSpec, remembered,
                   deferred, event, locals, outcome>>

\* An except block that ends after remove_storage_class().
ReturnWithoutRetry ==
    /\ pc' = "set_active"
    /\ UNCHANGED <<depth, outcome>>

\* apply_storage_class, line 90: the unconditional recursive call; the
\* interpreter ends the recursion with RecursionError.
ApplyAgain ==
    IF depth = RecursionLimit
    THEN End("RecursionError") /\ UNCHANGED depth
    ELSE /\ depth' = depth + 1
         /\ pc' = "sc_create"
         /\ UNCHANGED outcome

\* apply_storage_class, line 89: remove_storage_class() inside the except
\* block, so that an exception of delete_storage_class leaves the handler.
DeleteStorageClass ==
    /\ pc = "sc_delete"
    /\ \E res \in {"ok", "notfound", "error"} :
         /\ res = "notfound" <=> ~ storageClass.present
         /\ Log(<<CallEntry("delete", res)>>)
         /\ IF res = "ok"
            THEN /\ storageClass' = NoStorageClass
                 /\ ApplyAgain
            ELSE /\ End("ApiException")
                 /\ UNCHANGED <<storageClass, depth>>
    /\ UNCHANGED <<inputs, podSpec, remembered,
                   status, deferred, event, ceph_user, ceph_key,
                   ceph_monitors, fetched>>

\* self.model.unit.status = ActiveStatus(), the last statement.
SetActive ==
    /\ pc = "set_active"
    /\ status' = ActiveStatus
    /\ Log(<<StatusEntry(status')>>)
    /\ End("returned")
    /\ UNCHANGED <<inputs, podSpec, remembered,
                   storageClass, deferred, event, locals>>

Next ==
    \/ \E e \in {"install", "upgrade_charm", "config_changed",
                 "ceph_relation_changed", "remove"} : Deliver(e)
    \/ \E e \in deferred : Redeliver(e)
    \/ Finish
    \/ OtherModelCreates
    \/ CheckEvent
    \/ ReadRelation
    \/ CheckReady
    \/ Fetch
    \/ SetMaintenance
    \/ SetSpec
    \/ CreateStorageClass
    \/ DeleteStorageClass
    \/ SetActive

Spec == Init /\ [][Next]_vars

\* ----------------------------------------------------------- the loop alone
\* The provisioner's handler at the aggregation loop, for every content of
\* the relation data up to MaxLoopUnits units, followed by the readiness
\* test.
InitLoop ==
    /\ charm = "provisioner"
    /\ config = DefaultConfig
    /\ relation \in LoopRelationUnits
    /\ hostname = "operator-0"
    /\ status = UnknownStatus
    /\ storageClass = NoStorageClass
    /\ deferred = {}
    /\ pc = "read_relation"
    /\ event = "ceph_relation_changed"
    /\ ceph_user = NoneVal
    /\ ceph_key = NoneVal
    /\ ceph_monitors = <<>>
    /\ fetched = 0
    /\ depth = 0
    /\ outcome = "running"
    /\ trace = <<>>
    /\ podSpec = NoSpec
    /\ remembered = NothingRemembered

NextLoop ==
    \/ ReadRelation
    \/ CheckReady

SpecLoop == InitLoop /\ [][NextLoop]_vars

\* ----------------------------------------------------------- the build alone
\* One run of set_pod_spec of each charm up to the set_spec call, for every
\* configuration, host name and kind of relation data.
InitBuild ==
    /\ charm \in Charms
    /\ config \in Configs
    /\ relation \in (IF charm = "provisioner" THEN RelationKinds ELSE {<<>>})
    /\ hostname \in Hostnames
    /\ status = UnknownStatus
    /\ storageClass = NoStorageClass
    /\ deferred = {}
    /\ pc = FirstStatement(charm)
    /\ event \in Observed(charm)
    /\ ceph_user = NoneVal
    /\ ceph_key = NoneVal
    /\ ceph_monitors = <<>>
    /\ fetched = 0
    /\ depth = 0
    /\ outcome = "running"
    /\ trace = <<>>
    /\ podSpec = NoSpec
    /\ remembered = NothingRemembered

NextBuild ==
    \/ CheckEvent
    \/ ReadRelation
    \/ CheckReady
    \/ Fetch
    \/ SetMaintenance
    \/ SetSpec

SpecBuild == InitBuild /\ [][NextBuild]_vars

\* ----------------------------------------------------------- fixed inputs
\* The unit with inputs that never change: any configuration, host name and
\* relation data from the start, then events of every kind and
\* re-deliveries, each handler run noting what it leaves behind.
InitRerun ==
    /\ charm \in Charms
    /\ config \in Configs
    /\ relation \in (IF charm = "provisioner" THEN RelationKinds ELSE {<<>>})
    /\ hostname \in Hostnames
    /\ status = UnknownStatus
    /\ storageClass = NoStorageClass
    /\ deferred = {}
    /\ pc = "idle"
    /\ event = "none"
    /\ ceph_user = NoneVal
    /\ ceph_key = NoneVal
    /\ ceph_monitors = <<>>
    /\ fetched = 0
    /\ depth = 0
    /\ outcome = "none"
    /\ trace = <<>>
    /\ podSpec = NoSpec
    /\ remembered = NothingRemembered

NextRerun ==
    \/ \E e \in {"install", "upgrade_charm", "config_changed",
                 "ceph_relation_changed", "remove"} : DeliverAgain(e)
    \/ \E e \in deferred : Redeliver(e)
    \/ FinishAndRemember
    \/ OtherModelCreates
    \/ CheckEvent
    \/ ReadRelation
    \/ CheckReady
    \/ Fetch
    \/ SetMaintenance
    \/ SetSpec
    \/ CreateStorageClass
    \/ DeleteStorageClass
    \/ SetActive

SpecRerun == InitRerun /\ [][NextRerun]_vars

\* ----------------------------------------------------------- storage options
\* Juju delivers a lifecycle event.  A config-changed event comes with the
\* configuration as it now is, any of the storage-class options changed; the
\* relation data stay as they are.
DeliverOptions(e) ==
    /\ pc = "idle"
    /\ e \in LifecycleEvents(charm)
    /\ IF e = "config_changed"
       THEN config' \in StorageConfigs
       ELSE config' = config
    /\ Dispatch(e)
    /\ UNCHANGED <<charm, relation, hostname, status, deferred, remembered>>

\* The provisioner unit related to one ceph unit that publishes identity,
\* key and address, under any configuration of the storage-class options.
InitApply ==
    /\ charm = "provisioner"
    /\ config \in StorageConfigs
    /\ relation = <<[k \in RelationKeys |->
                      IF k = "auth" THEN "admin" ELSE IF k = "key" THEN "secret"
                      ELSE "10.0.0.1"]>>
    /\ hostname = "operator-0"
    /\ status = UnknownStatus
    /\ storageClass = NoStorageClass
    /\ deferred = {}
    /\ pc = "idle"
    /\ event = "none"
    /\ ceph_user = NoneVal
    /\ ceph_key = NoneVal
    /\ ceph_monitors = <<>>
    /\ fetched = 0
    /\ depth = 0
    /\ outcome = "none"
    /\ trace = <<>>
    /\ podSpec = NoSpec
    /\ remembered = NothingRemembered

NextApply ==
    \/ \E e \in {"install", "upgrade_charm", "config_changed",
                 "ceph_relation_changed", "remove"} : DeliverOptions(e)
    \/ FinishAndRemember
    \/ OtherModelCreates
    \/ CheckEvent
    \/ ReadRelation
    \/ CheckReady
    \/ Fetch
    \/ SetMaintenance
    \/ SetSpec
    \/ CreateStorageClass
    \/ DeleteStorageClass
    \/ SetActive

SpecApply == InitApply /\ [][NextApply]_vars

TypeOK ==
    /\ charm \in Charms
    /\ pc \in {"idle", "check_event", "read_relation", "check_ready", "fetch",
               "set_status", "set_spec", "sc_create", "sc_delete",
               "set_active", "done"}
    /\ depth \in 0..RecursionLimit
    /\ fetched \in 0..Len(ImageRoles(charm))
    /\ deferred \subseteq Observed(charm)

\* =========================================================== properties
\* Positions of the trace of the handler run in progress.
Calls(op) ==
    { i \in 1..Len(trace) : trace[i].kind = "call" /\ trace[i].what = op }

CallsWith(op, res) == { i \in Calls(op) : trace[i].res = res }

StatusWrites(kind, msg) ==
    { i \in 1..Len(trace) :
        trace[i] = [kind |-> "status", what |-> kind, res |-> msg] }

\* The calls to the Kubernetes storage API, in the order they were made.
ApiCalls ==
    SelectSeq(trace, LAMBDA x : x.kind = "call" /\ x.what \in {"create", "delete"})

\* The provisioner's handler is past the test of line 127.
PassedReadyCheck ==
    /\ charm = "provisioner"
    /\ event \in {"install", "upgrade_charm", "config_changed",
                  "ceph_relation_changed"}
    /\ pc \notin {"idle", "check_event", "read_relation", "check_ready"}
    /\ outcome \notin {"AttributeError", "KeyError"}

\* The aggregated relation data gave no identity or no key.
NotReadyDecided ==
    /\ PassedReadyCheck
    /\ (ceph_user \in {NoneVal, ""} \/ ceph_key \in {NoneVal, ""})

\* C1: in the provisioner, a reconciliation that found the relation data
\* NotReady (no identity or no key) makes no set_spec call.
C1_NoSubmitWhenNotReady == NotReadyDecided => Calls("set_spec") = {}

\* C2: when every create call fails with "already exists",
\* apply_storage_class makes at most 3 delete/create cycles and ends with a
\* configuration error of its own, never by exhausting the recursion.
C2_RetryBounded ==
    (\A i \in Calls("create") : trace[i].res = "conflict")
        => /\ Cardinality(Calls("delete")) <= 3
           /\ outcome # "RecursionError"

\* C3: in every charm, once a fetch of an image resource has failed the
\* handler has returned, the status is the error status of the resource that
\* failed, no set_spec call was made and Active was not set, whichever
\* resource failed.
C3_FetchFailureStops ==
    CallsWith("fetch", "failed") # {}
        => /\ pc = "done"
           /\ outcome = "returned"
           /\ status = [kind |-> "blocked",
                        message |-> ImageRoles(charm)[fetched + 1]]
           /\ Calls("set_spec") = {}
           /\ StatusWrites("active", "") = {}

C3_Witness ==
    /\ charm = "provisioner"
    /\ fetched = 3
    /\ CallsWith("fetch", "failed") # {}
    /\ NotReadyDecided

C5_NotReadyDefers ==
    NotReadyDecided
        => /\ event \in deferred
           /\ \E w \in StatusWrites("maintenance", "Waiting on ceph relation") :
                /\ w < Len(trace)
                /\ trace[w + 1] = [kind |-> "defer", what |-> event, res |-> ""]

C5_Witness ==
    /\ NotReadyDecided
    /\ ceph_user = "admin"
    /\ ceph_key = ""
    /\ pc = "done"

\* C6: in the provisioner, a run for the remove, config-changed or
\* relation-changed event issues a delete call for the storage class before
\* any create call.
C6_DeleteBeforeCreate ==
    (charm = "provisioner" /\ pc = "done"
       /\ event \in {"remove", "config_changed", "ceph_relation_changed"})
        => \E d \in Calls("delete") : \A c \in Calls("create") : d < c

\* C7: when the first create call of apply_storage_class reports a conflict
\* and the delete and the create that follow succeed, the calls are exactly
\* create (conflict), delete, create (ok), apply_storage_class then returns
\* with the storage class present as the object just created, and no other
\* call is made on the storage class.
C7_ConflictRecreates ==
    (/\ Len(ApiCalls) >= 1
     /\ ApiCalls[1].res = "conflict"
     /\ Len(ApiCalls) >= 2 => ApiCalls[2].res = "ok"
     /\ Len(ApiCalls) >= 3 => ApiCalls[3].res = "ok")
        => /\ Len(ApiCalls) <= 3
           /\ \A i \in 1..Len(ApiCalls) :
                ApiCalls[i].what = <<"create", "delete", "create">>[i]
           /\ \A i \in 1..Len(trace) :
                trace[i].kind = "call"
                    => trace[i].what \in {"fetch", "set_spec", "create", "delete"}
           /\ pc \in {"set_active", "done"}
                => /\ Len(ApiCalls) = 3
                   /\ storageClass.present
                   /\ storageClass.fresh
                   /\ outcome \in {"running", "returned"}

C7_Witness ==
    /\ pc = "set_active"
    /\ Len(ApiCalls) = 3
    /\ ApiCalls[1].res = "conflict"
    /\ storageClass.fresh

\* A failure met by the handler run in progress.
FailureSeen ==
    \/ NotReadyDecided
    \/ CallsWith("fetch", "failed") # {}
    \/ CallsWith("set_spec", "rejected") # {}
    \/ Calls("create") # CallsWith("create", "ok")
    \/ Calls("delete") # CallsWith("delete", "ok")
    \/ outcome \notin {"none", "running", "returned"}

\* C8: every failure path of set_pod_spec ends with the event deferred or
\* with an error status on the unit, and no exception leaves set_pod_spec.
C8_FailuresHandled ==
    (pc = "done" /\ FailureSeen)
        => /\ outcome = "returned"
           /\ event \in deferred \/ status.kind = "blocked"

\* C9: when Juju rejects the pod spec, the unit gets an error status, set_spec
\* is not called again in that reconciliation, no storage class create call
\* follows and the status is not Active.
C9_RejectionSurfaced ==
    CallsWith("set_spec", "rejected") # {}
        => /\ status.kind = "blocked"
           /\ Cardinality(Calls("set_spec")) = 1
           /\ Calls("create") = {}
           /\ StatusWrites("active", "") = {}

\* One unit publishes a non-empty identity and no unit publishes a key.
PartialCredentials(units) ==
    /\ \E i \in 1..Len(units) :
         "auth" \in DOMAIN units[i] /\ units[i]["auth"] # ""
    /\ \A j \in 1..Len(units) :
         "key" \in DOMAIN units[j] => units[j]["key"] = ""

\* C10: with relation data in which one unit publishes an identity and no
\* unit a key, the provisioner finds NotReady (waiting status set, event
\* deferred) and fails in no other way.
C10_PartialCredentialsNotReady ==
    (/\ charm = "provisioner"
     /\ event \in Observed(charm)
     /\ pc \notin {"idle", "check_event", "read_relation", "check_ready"}
     /\ PartialCredentials(relation))
        => /\ outcome \in {"running", "returned"}
           /\ event \in deferred
           /\ StatusWrites("maintenance", "Waiting on ceph relation") # {}

\* ----------------------------------------------------------- workload spec
\* The handler run in progress has passed a document to set_spec.
Submitted == Calls("set_spec") # {}

Range(seq) == { seq[i] : i \in 1..Len(seq) }

\* A credential value that is there and not empty.
Present(x) == x \notin {NoneVal, ""}

\* C11: in every workload spec the provisioner submits, the secret
\* ceph-csi-secret carries an adminID and an adminKey that are both present
\* (non-empty) or both absent, never exactly one of the two.
C11_SecretAllOrNothing ==
    (charm = "provisioner" /\ Submitted)
        => \A secret \in Range(podSpec.secrets) :
             Present(secret.adminID) <=> Present(secret.adminKey)

\* The monitor addresses of the related units, in iteration order.
Addresses(units) == [i \in 1..Len(units) |-> units[i]["ceph-public-address"]]

\* C13: in every workload spec the provisioner submits, the config map
\* ceph-csi-config holds under config.json the JSON text of a list with
\* exactly one entry, whose clusterID is the current cluster-id and whose
\* monitors are the addresses of the current relation data, and nothing of
\* an earlier reconciliation.
C13_ConfigMapFromCurrentInputs ==
    (charm = "provisioner" /\ Submitted)
        => /\ podSpec.configMaps =
                <<[name |-> "ceph-csi-config", file |-> "config.json",
                   data |-> JsonDumps(<<[clusterID |-> config.clusterID,
                                         monitors |-> Addresses(relation)]>>)]>>
           /\ (config.clusterID = "c2" /\ Addresses(relation) = <<"10.0.0.1">>)
                => podSpec.configMaps[1].data =
                     "[{\"clusterID\": \"c2\", \"monitors\": [\"10.0.0.1\"]}]"
           /\ (config.clusterID = "c1" /\ relation = <<>>)
                => podSpec.configMaps[1].data =
                     "[{\"clusterID\": \"c1\", \"monitors\": []}]"

C13_Witness ==
    /\ charm = "provisioner"
    /\ Submitted
    /\ config.clusterID = "c2"
    /\ relation # <<>>
    /\ event = "upgrade_charm"

\* The socket a container is told to use: the values of --csi-address and
\* --endpoint and of CSI_ENDPOINT and ADDRESS, without the unix:// scheme.
SocketPath(v) ==
    IF Len(v) >= 3 /\ v[1] = "unix:" /\ v[2] = "" THEN SubSeq(v, 3, Len(v))
    ELSE v

SocketRefs(c) ==
    { SocketPath(a.value) :
        a \in { x \in Range(c.args) : x.flag \in {"--csi-address", "--endpoint"} } }
    \cup
    { SocketPath(e.value) :
        e \in { x \in Range(c.envConfig) :
                  x.kind = "value" /\ x.name \in {"CSI_ENDPOINT", "ADDRESS"} } }

SocketDirs(c) == { v \in Range(c.volumeConfig) : v.name = "socket-dir" }

\* The container that runs the csi image as node or controller server.
DriverContainers(spec) ==
    { c \in Range(spec.containers) : c.name \in {"ceph-csi", "csi-cephfsplugin"} }

\* C14: in every workload spec of any charm, every container that refers to
\* the driver socket uses the socket path of the driver container and mounts
\* a socket-dir volume with the driver container's mount path and host path.
C14_SocketShared ==
    Submitted
        => \A c \in Range(podSpec.containers) :
           \A d \in DriverContainers(podSpec) :
             SocketRefs(c) # {}
                => /\ SocketRefs(c) = SocketRefs(d)
                   /\ \E v \in SocketDirs(c) : \E w \in SocketDirs(d) :
                        /\ v.mountPath = w.mountPath
                        /\ v.hostPath = w.hostPath

\* C15: in every workload spec of any charm, no two containers have the
\* same name and no two volumes of one container have the same name.
C15_NamesUnique ==
    Submitted
        => /\ \A i, j \in 1..Len(podSpec.containers) :
                podSpec.containers[i].name = podSpec.containers[j].name
                    => i = j
           /\ \A c \in Range(podSpec.containers) :
              \A i, j \in 1..Len(c.volumeConfig) :
                c.volumeConfig[i].name = c.volumeConfig[j].name => i = j

C15_Witness ==
    /\ Submitted
    /\ charm = "nodeplugin"
    /\ Len(podSpec.containers) = 3
    /\ \E c \in Range(podSpec.containers) : Len(c.volumeConfig) = 8

\* C16: in every workload spec of any charm, the driver container (named
\* ceph-csi or csi-cephfsplugin) is privileged.
C16_DriverPrivileged ==
    Submitted => \A d \in DriverContainers(podSpec) : d.privileged

\* C19: a reconciliation for install in which every image was fetched, the
\* relation data (provisioner) were ready, set_spec was accepted and the
\* create call (provisioner) succeeded has made exactly one set_spec call
\* and has ended, returning normally, with the status Active.
C19_InstallEndsActive ==
    (/\ pc = "done"
     /\ event = "install"
     /\ Cardinality(CallsWith("fetch", "ok")) = Len(ImageRoles(charm))
     /\ charm = "provisioner" => Present(ceph_user) /\ Present(ceph_key)
     /\ CallsWith("set_spec", "ok") # {}
     /\ charm = "provisioner"
          => Calls("create") # {} /\ Calls("create") = CallsWith("create", "ok"))
        => /\ Cardinality(Calls("set_spec")) = 1
           /\ outcome = "returned"
           /\ status = [kind |-> "active", message |-> ""]
           /\ trace[Len(trace)] = [kind |-> "status", what |-> "active", res |-> ""]

C19_Witness ==
    /\ pc = "done"
    /\ event = "install"
    /\ charm = "provisioner"
    /\ Present(ceph_user)
    /\ Present(ceph_key)
    /\ CallsWith("create", "ok") # {}
    /\ Calls("create") = CallsWith("create", "ok")
    /\ status.kind = "active"

\* C20: in the provisioner, once a reconciliation has found the relation
\* data NotReady, set the waiting status and deferred the event, it writes
\* neither Maintenance("Setting pod spec") nor Active, makes no create call
\* and does not end with the status Active.
C20_NotReadyNeverActive ==
    NotReadyDecided
        => /\ StatusWrites("maintenance", "Setting pod spec") = {}
           /\ StatusWrites("active", "") = {}
           /\ Calls("create") = {}
           /\ pc = "done" => status.kind # "active"

\* ----------------------------------------------------------- aggregation
\* The aggregation loop has run to its end.
LoopDone ==
    /\ charm = "provisioner"
    /\ pc \notin {"idle", "check_event", "read_relation"}
    /\ outcome \notin {"AttributeError", "KeyError"}

\* C12: after the aggregation loop, ceph_monitors is the list of the
\* addresses of all related units in iteration order: as long as the list
\* of units, in their order, a repeated address kept.
C12_MonitorsConcatenated ==
    LoopDone
        => /\ Len(ceph_monitors) = Len(relation)
           /\ \A i \in 1..Len(relation) :
                ceph_monitors[i] = relation[i]["ceph-public-address"]

C12_Witness ==
    /\ LoopDone
    /\ Len(relation) = 2
    /\ relation[1]["ceph-public-address"] = relation[2]["ceph-public-address"]
    /\ ceph_monitors = <<"10.0.0.2", "10.0.0.2">>

NoOtherFailure ==
    \A i \in 1..Len(trace) :
        trace[i].kind = "call" => trace[i].res \in {"ok", "conflict"}

\* C18: when a handler run has ended that followed another run, with
\* configuration, relation data and host name unchanged and the storage
\* class untouched by other models since the earlier run ended, and no call
\* of either run failed for another reason than "already exists", then the
\* last submitted workload spec, the storage class (presence and
\* parameters) and the unit status are as the earlier run left them.
C18_SecondRunSameState ==
    (pc = "done" /\ event \in Observed(charm) /\ remembered.runs
       /\ NoOtherFailure)
        => /\ (IF podSpec = NoSpec THEN remembered.spec ELSE podSpec)
                = remembered.spec
           /\ storageClass.present = remembered.present
           /\ ClusterIdOf(storageClass) = remembered.clusterID
           /\ status = remembered.status

\* ----------------------------------------------------------- credentials
\* The last unit in iteration order publishes an identity and a key, both
\* non-empty.
LastPublishesBoth(units) ==
    /\ units # <<>>
    /\ {"auth", "key"} \subseteq DOMAIN units[Len(units)]
    /\ units[Len(units)]["auth"] # ""
    /\ units[Len(units)]["key"] # ""

\* The provisioner's handler has come to its readiness decision or has
\* ended before it.
ReadinessSettled ==
    /\ charm = "provisioner"
    /\ event \in Observed(charm)
    /\ pc \notin {"idle", "check_event", "read_relation", "check_ready"}

\* The handler went past the test of line 127 without taking its branch.
FoundReady ==
    /\ outcome \notin {"AttributeError", "KeyError"}
    /\ StatusWrites("maintenance", "Waiting on ceph relation") = {}

\* C21: the identity and the key a reconciliation uses are those of one
\* unit, the last in iteration order, and the reconciliation is ready
\* exactly when that unit publishes both non-empty, whatever the units
\* before it publish.
C21_CredentialsOfLastUnit ==
    ReadinessSettled
        => /\ (outcome # "KeyError" /\ relation # <<>>)
                => /\ ceph_user = relation[Len(relation)]["auth"]
                   /\ ceph_key = relation[Len(relation)]["key"]
           /\ FoundReady <=> LastPublishesBoth(relation)


\* ----------------------------------------------------------- applied class
\* apply_storage_class, called by the handler run in progress, has returned
\* without an exception.
ApplyReturned ==
    /\ charm = "provisioner"
    /\ Calls("create") # {}
    /\ \/ pc = "set_active"
       \/ pc = "done" /\ outcome = "returned"

\* C22: whenever apply_storage_class has returned normally, the storage class
\* "ceph-csi-sc" exists as the object of the last create call of this run,
\* its provisioner is the driver name, and its reclaim policy, expansion
\* flag, mount options and parameters are those of the current
\* configuration; no object of an older configuration is left.
C22_AppliedClassIsCurrent ==
    ApplyReturned
        => /\ storageClass.present
           /\ storageClass.fresh
           /\ ApiCalls[Len(ApiCalls)].what = "create"
           /\ ApiCalls[Len(ApiCalls)].res = "ok"
           /\ storageClass.name = "ceph-csi-sc"
           /\ storageClass.provisioner = "cephfs.csi.ceph.com"
           /\ storageClass.reclaim_policy = config.reclaimPolicy
           /\ storageClass.allow_volume_expansion = config.allowVolumeExpansion
           /\ storageClass.mount_options = SplitCommas(config.mountOptions)
           /\ storageClass.parameters.clusterID = config.clusterID
           /\ storageClass.parameters.fsName = config.fsName
           /\ storageClass.parameters.pool = config.poolName
           /\ storageClass.parameters.fstype = config.fsType
           /\ storageClass.parameters.imageFeatures = "layering"
           /\ storageClass.parameters.provisioner_secret_namespace = ModelName
           /\ storageClass.parameters.controller_expand_secret_namespace
                = ModelName
           /\ storageClass.parameters.node_stage_secret_namespace = ModelName

\* A configuration change after a clean run that left the class of cluster
\* "c1": the create call meets the old object, which is deleted and made
\* anew for cluster "c2".
C22_Witness ==
    /\ ApplyReturned
    /\ event = "config_changed"
    /\ remembered.runs
    /\ remembered.present
    /\ remembered.clusterID = "c1"
    /\ config.clusterID = "c2"
    /\ Len(ApiCalls) = 3
    /\ ApiCalls[1].res = "conflict"
    /\ storageClass.parameters.clusterID = "c2"

\* The same for the mount options: the old object is replaced by one with
\* the two options of the changed configuration.
C22_WitnessOptions ==
    /\ ApplyReturned
    /\ event = "config_changed"
    /\ remembered.runs
    /\ remembered.present
    /\ config.mountOptions = <<"noatime", ",", "discard">>
    /\ ApiCalls[1].res = "conflict"
    /\ storageClass.mount_options = <<"noatime", "discard">>

====
